---- MODULE Spec2Model ----
(***************************************************************************)
(* State-machine model of app.py: the FastAPI backend of AskMehdi.         *)
(*                                                                         *)
(* Startup (module import) runs load_resources() inside a try/except, then *)
(* the single event loop serves GET /, POST /chat and GET /health.  The    *)
(* handlers are coroutines that never await, so a handler owns the event   *)
(* loop from its dispatch until it returns or raises.                      *)
(***************************************************************************)
EXTENDS Integers, Sequences, FiniteSets, TLC

\* ------------------------------------------------------------------ bounds
MaxCvChunks == 4      \* chunks the splitter may cut the CV text into
MaxMsgLen   == 2      \* length of a "message" string in a request body
NumReqs     == 2      \* requests that may be in flight at the same time

\* --------------------------------------------------------------- constants
\* variant: one more result than configured
TOP_K_plus_one == 4 + 1

TOP_K == 4

\* Optional[T]: None is the empty set, a value x is the singleton {x}
None == {}
Some(x) == {x}
Get(o) == CHOOSE x \in o : TRUE
NOT_INITIALIZED == "Model not initialized. Please restart the server."

Reqs  == 1..NumReqs
Chars == {" ", "a"}

\* ---------------------------------------------------------------- helpers
Min(a, b) == IF a < b THEN a ELSE b

SeqsUpTo(S, n) == UNION { [1..k -> S] : k \in 0..n }

\* str.lstrip() / str.rstrip() / str.strip() on whitespace
RECURSIVE lstrip(_)
lstrip(s) == IF s = <<>> THEN <<>>
             ELSE IF Head(s) = " " THEN lstrip(Tail(s)) ELSE s

RECURSIVE rstrip(_)
rstrip(s) == IF s = <<>> THEN <<>>
             ELSE IF s[Len(s)] = " " THEN rstrip(SubSeq(s, 1, Len(s) - 1)) ELSE s

\* variant: the message is used as sent, blanks included
strip_omitted(s) == s

strip(s) == rstrip(lstrip(s))

\* "\n\n".join(parts): parts are token sequences, the separator is one token
SEP == "\n\n"

RECURSIVE join(_)
join(parts) == IF parts = <<>> THEN <<>>
               ELSE IF Len(parts) = 1 THEN parts[1]
               ELSE parts[1] \o <<SEP>> \o join(Tail(parts))

\* The request bodies a client may send: a JSON object that has or lacks the
\* "message" key; the value is a string or a non-string JSON value; an object
\* without "message" is either empty ({}) or holds some other key.
Payloads ==
    { [has |-> TRUE, isStr |-> TRUE, val |-> s, empty |-> FALSE] :
          s \in SeqsUpTo(Chars, MaxMsgLen) }
    \cup { [has |-> TRUE,  isStr |-> FALSE, val |-> <<>>, empty |-> FALSE],
           [has |-> FALSE, isStr |-> TRUE,  val |-> <<>>, empty |-> FALSE],
           [has |-> FALSE, isStr |-> TRUE,  val |-> <<>>, empty |-> TRUE] }

NoPayload == [has |-> FALSE, isStr |-> TRUE, val |-> <<>>, empty |-> TRUE]

\* ------------------------------------------------------------------ state
VARIABLES
    spc,          \* position of the module-level startup code
    llm,          \* global llm
    retriever,    \* global retriever: None or Some([k |-> search_kwargs["k"]])
    vectorstore,  \* global vectorstore: None or Some(sequence of indexed chunks)
    all_docs,     \* load_resources local: the document list
    chunks,       \* load_resources local: the splitter's output
    log,          \* lines printed so far, each <<text, detail>>
    req,          \* per client request: route, body, state, response
    running,      \* request whose handler owns the event loop, or 0
    hpc,          \* position of the running handler
    docs,         \* generate_answer local: the retrieved documents
    prompt        \* the messages the running handler handed to llm.invoke

vars == <<spc, llm, retriever, vectorstore, all_docs, chunks, log,
          req, running, hpc, docs, prompt>>

globals == <<llm, retriever, vectorstore>>
startup == <<spc, all_docs, chunks, log>>
frame   == <<running, hpc, docs, prompt>>

\* A request slot: the route and body sent, how far the server is with it, the
\* response, the retriever.invoke / llm.invoke calls its handler has made, and
\* the library call that raised in it, if one did.
IdleReq == [st |-> "idle", route |-> "-", payload |-> NoPayload,
            status |-> 0, body |-> <<"-", "">>, nRetr |-> 0, nLlm |-> 0,
            raised |-> "-"]

NoPrompt == [context |-> <<>>, query |-> <<>>]

Init ==
    /\ spc = "init_llm"
    /\ llm = None
    /\ retriever = None
    /\ vectorstore = None
    /\ all_docs = <<>>
    /\ chunks = <<>>
    /\ log = {}
    /\ req = [r \in Reqs |-> IdleReq]
    /\ running = 0
    /\ hpc = "-"
    /\ docs = <<>>
    /\ prompt = NoPrompt


\* ---------------------------------------------------------------- startup
\* The except clause of the module-level try around load_resources(): exc is
\* printed and the module goes on to serve.
StartupExcept(exc) ==
    /\ spc' = "serving"
    /\ log' = log \cup {<<"[WARNING] Could not load model", exc>>}

\* Document(page_content=..., metadata={"source": ...}); the text is kept as
\* the number of pieces the splitter cuts it into (PERSONAL_PROFILE is shorter
\* than CHUNK_SIZE: one piece; a CV without extractable text: no piece).
Document(source, pieces) == [source |-> source, pieces |-> pieces]

profile_doc == Document("profile", 1)

\* splitter.split_documents(all_docs): the pieces of each document, in
\* document order, each inheriting the source of its document.
RECURSIVE split_documents(_)
split_documents(ds) ==
    IF ds = <<>> THEN <<>>
    ELSE [i \in 1..Head(ds).pieces |->
             [source |-> Head(ds).source,
              page_content |-> <<Head(ds).source, ToString(i)>>]]
         \o split_documents(Tail(ds))

\* llm = ChatGroq(...): the client is created, or its construction raises.
InitLLM ==
    /\ spc = "init_llm"
    /\ \/ /\ llm' = Some("ChatGroq")
          /\ log' = log \cup {<<"[OK] Groq LLM initialized", "">>}
          /\ spc' = "load_docs"
       \/ /\ llm' = llm
          /\ StartupExcept("ChatGroq")
    /\ UNCHANGED <<retriever, vectorstore, all_docs, chunks, req, frame>>

\* variant: the except clause around the PDF read prints and re-raises
LoadDocs_reraises ==
    /\ spc = "load_docs"
    /\ \/ /\ all_docs' = <<profile_doc>>
          /\ log' = log
          /\ spc' = "split"
       \/ \E n \in 0..MaxCvChunks :
             /\ all_docs' = <<profile_doc, Document("cv.pdf", n)>>
             /\ log' = log \cup {<<"[OK] Loaded CV", "">>}
             /\ spc' = "split"
       \/ /\ all_docs' = <<profile_doc>>
          /\ log' = log \cup {<<"Could not load CV", "PdfReader">>,
                               <<"[WARNING] Could not load model", "PdfReader">>}
          /\ spc' = "serving"
    /\ UNCHANGED <<globals, chunks, req, frame>>

\* all_docs = [profile_doc]; then the optional CV: absent, read, or unreadable.
LoadDocs ==
    /\ spc = "load_docs"
    /\ \/ \* cv_path does not exist
          /\ all_docs' = <<profile_doc>>
          /\ log' = log
       \/ \* the PDF is read; its text splits into n pieces
          \E n \in 0..MaxCvChunks :
             /\ all_docs' = <<profile_doc, Document("cv.pdf", n)>>
             /\ log' = log \cup {<<"[OK] Loaded CV", "">>}
       \/ \* PdfReader or extract_text raises: caught, warning printed
          /\ all_docs' = <<profile_doc>>
          /\ log' = log \cup {<<"Could not load CV", "PdfReader">>}
    /\ spc' = "split"
    /\ UNCHANGED <<globals, chunks, req, frame>>

SplitDocs ==
    /\ spc = "split"
    /\ chunks' = split_documents(all_docs)
    /\ log' = log \cup {<<"[OK] Created document chunks", "">>}
    /\ spc' = "embeddings"
    /\ UNCHANGED <<globals, all_docs, req, frame>>

\* embeddings = HuggingFaceEmbeddings(...): loaded, or the load raises.
LoadEmbeddings ==
    /\ spc = "embeddings"
    /\ \/ /\ spc' = "build_index"
          /\ log' = log
       \/ StartupExcept("HuggingFaceEmbeddings")
    /\ UNCHANGED <<globals, all_docs, chunks, req, frame>>

\* variant: retriever is assigned to a local name, the global stays None
BuildIndex_local_retriever ==
    /\ spc = "build_index"
    /\ \/ /\ vectorstore' = Some(chunks)
          /\ retriever' = retriever
          /\ log' = log \cup {<<"[OK] FAISS vectorstore and retriever ready", "">>}
          /\ spc' = "serving"
       \/ /\ UNCHANGED <<vectorstore, retriever>>
          /\ StartupExcept("FAISS")
    /\ UNCHANGED <<llm, all_docs, chunks, req, frame>>

\* vectorstore = FAISS.from_documents(...); retriever = as_retriever(k=TOP_K)
BuildIndex ==
    /\ spc = "build_index"
    /\ \/ /\ vectorstore' = Some(chunks)
          /\ retriever' = Some([k |-> TOP_K])
          /\ log' = log \cup {<<"[OK] FAISS vectorstore and retriever ready", "">>}
          /\ spc' = "serving"
       \/ /\ UNCHANGED <<vectorstore, retriever>>
          /\ StartupExcept("FAISS")
    /\ UNCHANGED <<llm, all_docs, chunks, req, frame>>


\* ---------------------------------------------------------------- serving
\* A client sends a request; the server has it queued until a handler runs.
Arrive(r) ==
    /\ spc = "serving"
    /\ req[r].st = "idle"
    /\ \E route \in {"/", "/chat", "/health"} :
       \E p \in (IF route = "/chat" THEN Payloads ELSE {NoPayload}) :
          req' = [req EXCEPT ![r] = [IdleReq EXCEPT !.st = "queued",
                                                    !.route = route,
                                                    !.payload = p]]
    /\ UNCHANGED <<globals, startup, frame>>

\* The event loop runs one coroutine at a time; none of the handlers awaits.
LoopFree == running = 0

Respond(r, status, body) ==
    req' = [req EXCEPT ![r].st = "done", ![r].status = status, ![r].body = body]

\* GET /
root(r) ==
    /\ LoopFree
    /\ req[r].st = "queued" /\ req[r].route = "/"
    /\ Respond(r, 200, <<"index.html", "">>)
    /\ UNCHANGED <<globals, startup, frame>>

\* GET /health: {"status": "ok", "model_loaded": llm is not None}
model_loaded == llm # None

health(r) ==
    /\ LoopFree
    /\ req[r].st = "queued" /\ req[r].route = "/health"
    /\ Respond(r, 200, <<"model_loaded", IF model_loaded THEN "true" ELSE "false">>)
    /\ UNCHANGED <<globals, startup, frame>>

\* payload.get("message", "")
get_message(p) == IF p.has THEN p.val ELSE <<>>

\* .strip() of a value that is not a string raises AttributeError
strip_raises(p) == ~p.empty /\ p.has /\ ~p.isStr

\* message = payload.get("message", "").strip() if payload else ""
message(p) == IF ~p.empty THEN strip(get_message(p)) ELSE <<>>

\* variant: only the LLM client is tested
not_initialized_llm_only == llm = None

\* generate_answer: if not retriever or not llm
not_initialized == retriever = None \/ llm = None

\* POST /chat up to the first library call of generate_answer
chat(r) ==
    /\ LoopFree
    /\ req[r].st = "queued" /\ req[r].route = "/chat"
    /\ LET p == req[r].payload IN
       IF strip_raises(p)
       THEN /\ Respond(r, 500, <<"Internal Server Error", "">>)
            /\ UNCHANGED frame
       ELSE IF message(p) = <<>>
       THEN /\ Respond(r, 400, <<"No message provided", "">>)
            /\ UNCHANGED frame
       ELSE IF not_initialized
       THEN /\ Respond(r, 200, <<NOT_INITIALIZED, "">>)
            /\ UNCHANGED frame
       ELSE /\ req' = [req EXCEPT ![r].st = "running"]
            /\ running' = r
            /\ hpc' = "retrieve"
            /\ UNCHANGED <<docs, prompt>>
    /\ UNCHANGED <<globals, startup>>

\* The handler returns res: its frame is gone and the loop is free again.
Return(res) ==
    /\ req' = [req EXCEPT ![running].st = "done",
                          ![running].status = res.status,
                          ![running].body = res.body,
                          ![running].raised = res.raised,
                          ![running].nRetr = @ + res.nRetr]
    /\ running' = 0
    /\ hpc' = "-"
    /\ docs' = <<>>
    /\ prompt' = NoPrompt

\* variant: no except clause, the exception leaves the handler
except_clause_missing(e) ==
    [status |-> 500, body |-> <<"Internal Server Error", "">>,
     raised |-> e, nRetr |-> 0]

\* generate_answer's except clause, then chat's JSONResponse: the exception e
\* becomes the text of a normal response.
except_clause(e) ==
    [status |-> 200, body |-> <<"Sorry, I encountered an error", e>>,
     raised |-> e, nRetr |-> 0]

\* return answer, then chat's JSONResponse
return_answer ==
    [status |-> 200, body |-> <<"answer", "">>, raised |-> "-", nRetr |-> 0]

\* The results a similarity search with k results may give on an index: the
\* min(k, size) nearest chunks, nearest first; which ones depends on the query.
similarity_search(index, k) ==
    { s \in [1..Min(k, Len(index)) -> 1..Len(index)] :
          \A i, j \in DOMAIN s : i # j => s[i] # s[j] }

\* docs = retriever.invoke(query), or the call raises and is caught
Retrieve ==
    /\ running # 0 /\ hpc = "retrieve"
    /\ \/ /\ \E s \in similarity_search(Get(vectorstore), Get(retriever).k) :
                docs' = [i \in DOMAIN s |-> Get(vectorstore)[s[i]]]
          /\ req' = [req EXCEPT ![running].nRetr = @ + 1]
          /\ hpc' = "prompt"
          /\ UNCHANGED <<running, prompt>>
       \/ Return([except_clause("retriever") EXCEPT !.nRetr = 1])
    /\ UNCHANGED <<globals, startup>>

\* context = "\n\n".join(d.page_content for d in docs)
context_of(ds) == join([i \in DOMAIN ds |-> ds[i].page_content])

\* The prompt is built and llm.invoke(messages) is entered: the request is on
\* its way to the remote model and the calling thread waits for the reply.
LlmInvoke ==
    /\ running # 0 /\ hpc = "prompt"
    /\ prompt' = [context |-> context_of(docs),
                  query   |-> message(req[running].payload)]
    /\ req' = [req EXCEPT ![running].nLlm = @ + 1]
    /\ hpc' = "llm_wait"
    /\ UNCHANGED <<globals, startup, running, docs>>

\* variant: a failed remote call drops the client
LlmReply_drops_client ==
    /\ running # 0 /\ hpc = "llm_wait"
    /\ \/ Return(return_answer) /\ llm' = llm
       \/ Return(except_clause("llm")) /\ llm' = None
    /\ UNCHANGED <<retriever, vectorstore, startup>>

\* variant: a failed remote call is issued again
LlmReply_retries ==
    /\ running # 0 /\ hpc = "llm_wait"
    /\ \/ Return(return_answer)
       \/ /\ hpc' = "prompt"
          /\ UNCHANGED <<req, running, docs, prompt>>
    /\ UNCHANGED <<globals, startup>>

\* llm.invoke returns the model's reply, or raises and the except clause of
\* generate_answer turns the exception into the answer text.
LlmReply ==
    /\ running # 0 /\ hpc = "llm_wait"
    /\ \/ Return(return_answer)
       \/ Return(except_clause("llm"))
    /\ UNCHANGED <<globals, startup>>

\* The client has read the response; the slot is free for a new request.
Forget(r) ==
    /\ req[r].st = "done"
    /\ req' = [req EXCEPT ![r] = IdleReq]
    /\ UNCHANGED <<globals, startup, frame>>

Next ==
    \/ InitLLM
    \/ LoadDocs
    \/ SplitDocs
    \/ LoadEmbeddings
    \/ BuildIndex
    \/ \E r \in Reqs : Arrive(r)
    \/ \E r \in Reqs : root(r)
    \/ \E r \in Reqs : health(r)
    \/ \E r \in Reqs : chat(r)
    \/ Retrieve
    \/ LlmInvoke
    \/ LlmReply
    \/ \E r \in Reqs : Forget(r)

Spec == Init /\ [][Next]_vars

\* ------------------------------------------------------------ type invariant
TypeOK ==
    /\ spc \in {"init_llm", "load_docs", "split", "embeddings", "build_index", "serving"}
    /\ llm \in {None, Some("ChatGroq")}
    /\ running \in Reqs \cup {0}
    /\ hpc \in {"-", "retrieve", "prompt", "llm_wait"}
    /\ \A r \in Reqs : req[r].st \in {"idle", "queued", "running", "done"}


\* ------------------------------------------------------------- vocabulary
Ready == retriever # None /\ llm # None

Printed(text) == \E l \in log : l[1] = text

StartupFailed == Printed("[WARNING] Could not load model")
CvWarned      == Printed("Could not load CV")

IsChat(r)   == req[r].route = "/chat"
IsHealth(r) == req[r].route = "/health"
Done(r)     == req[r].st = "done"

\* The body has no "message" key, or its value is a string of blanks only.
BlankMessage(p) ==
    \/ ~p.has
    \/ p.isStr /\ \A i \in DOMAIN p.val : p.val[i] = " "

\* The body's "message" is a string with a character that is not a blank.
TextMessage(p) ==
    p.has /\ p.isStr /\ \E i \in DOMAIN p.val : p.val[i] # " "

\* The pieces of a token sequence between its separator tokens.
RECURSIVE split(_)
split(toks) ==
    IF \A i \in DOMAIN toks : toks[i] # SEP THEN <<toks>>
    ELSE LET n == CHOOSE i \in DOMAIN toks :
                      toks[i] = SEP /\ \A j \in 1..(i - 1) : toks[j] # SEP
         IN  <<SubSeq(toks, 1, n - 1)>> \o split(SubSeq(toks, n + 1, Len(toks)))

\* ------------------------------------------------------------------ claims

\* C1: a finished GET /health reports model_loaded=true exactly when the
\* system is Ready, i.e. when POST /chat would not answer "not initialized".
C1_HealthReportsReady ==
    \A r \in Reqs :
        Done(r) /\ IsHealth(r) =>
            (req[r].body = <<"model_loaded", "true">> <=> Ready)

\* C2: a POST /chat whose body lacks "message", or holds a blank one, ends in
\* HTTP 400 with the error detail, Ready or not, and its handler never gets
\* to generate_answer: no retriever or remote model call is made for it.
C2_BlankMessageRejected ==
    \A r \in Reqs :
        IsChat(r) /\ BlankMessage(req[r].payload) =>
            /\ req[r].st # "running"
            /\ req[r].nRetr = 0 /\ req[r].nLlm = 0
            /\ Done(r) => /\ req[r].status = 400
                          /\ req[r].body = <<"No message provided", "">>

C2_Witness ==
    \E r, q \in Reqs :
        /\ Ready
        /\ Done(r) /\ IsChat(r) /\ req[r].payload.val = <<" ">>
        /\ req[r].status = 400
        /\ Done(q) /\ IsChat(q) /\ ~req[q].payload.has /\ req[q].status = 400

\* C3: in a Ready system, when the retriever or the remote model call of a
\* POST /chat with a text message raises, the request still completes with
\* HTTP 200 and a response text describing the error: never a 5xx.
C3_FailureBecomesAnswer ==
    \A r \in Reqs :
        IsChat(r) /\ TextMessage(req[r].payload) /\ req[r].raised # "-" =>
            /\ Ready
            /\ Done(r)
            /\ req[r].status = 200
            /\ req[r].body = <<"Sorry, I encountered an error", req[r].raised>>

C3_Witness ==
    \E r, q \in Reqs :
        /\ Done(r) /\ req[r].raised = "llm" /\ req[r].status = 200
        /\ Done(q) /\ req[q].raised = "retriever" /\ req[q].status = 200

\* C4: when startup failed (the LLM client, the embedding model or the index
\* build raised) the module still serves, and every POST /chat with a text
\* message gets HTTP 200 with the fixed "not initialized" text, without a
\* retriever or remote model call.
C4_NotInitializedAnswer ==
    StartupFailed =>
        /\ spc = "serving"
        /\ ~Ready
        /\ \A r \in Reqs :
              IsChat(r) /\ TextMessage(req[r].payload) =>
                  /\ req[r].st \in {"queued", "done"}
                  /\ req[r].nRetr = 0 /\ req[r].nLlm = 0
                  /\ Done(r) => /\ req[r].status = 200
                                /\ req[r].body = <<NOT_INITIALIZED, "">>

C4_Witness ==
    \E r \in Reqs :
        /\ StartupFailed /\ llm # None
        /\ Done(r) /\ IsChat(r) /\ TextMessage(req[r].payload)
        /\ req[r].body = <<NOT_INITIALIZED, "">>


\* C5: once the document list is built its first entry is the profile text
\* tagged "profile"; when reading the PDF raised, the warning is printed, no
\* "cv.pdf" document is in the list, and load_resources went on: the chunks
\* are those of the profile alone and the index build was attempted with them.
C5_ProfileKeptPdfFailureSkipped ==
    /\ spc \notin {"init_llm", "load_docs"} /\ llm # None =>
          /\ all_docs # <<>>
          /\ all_docs[1] = Document("profile", 1)
    /\ CvWarned =>
          /\ \A i \in DOMAIN all_docs : all_docs[i].source # "cv.pdf"
          /\ spc \notin {"init_llm", "load_docs"}
          /\ spc # "split" =>
                /\ Printed("[OK] Created document chunks")
                /\ Len(chunks) = 1
                /\ chunks[1].source = "profile"
          /\ spc = "serving" =>
                \/ vectorstore = Some(chunks)
                \/ \E l \in log : l[1] = "[WARNING] Could not load model"
                                  /\ l[2] \in {"HuggingFaceEmbeddings", "FAISS"}

C5_Witness ==
    /\ CvWarned
    /\ spc = "serving"
    /\ vectorstore = Some(<<[source |-> "profile",
                             page_content |-> <<"profile", "1">>]>>)

\* C6 as stated: after an unreadable PDF at startup the system is NotReady
\* and POST /chat answers "not initialized".
C6_UnreadablePdfLeavesNotReady ==
    CvWarned /\ spc = "serving" =>
        /\ ~Ready
        /\ \A r \in Reqs :
              Done(r) /\ IsChat(r) /\ TextMessage(req[r].payload) =>
                  req[r].body = <<NOT_INITIALIZED, "">>

\* C6 amended: an unreadable PDF is logged and does not by itself leave the
\* system NotReady: after it the system is NotReady exactly when a later
\* step (embedding model load, index build) raised, and when none did, POST
\* /chat with a text message is answered by the retriever and the model, not
\* by the "not initialized" text.
C6_UnreadablePdfAloneKeepsReady ==
    CvWarned /\ spc = "serving" =>
        /\ ~Ready <=> StartupFailed
        /\ ~StartupFailed =>
              \A r \in Reqs :
                  Done(r) /\ IsChat(r) /\ TextMessage(req[r].payload) =>
                      /\ req[r].body # <<NOT_INITIALIZED, "">>
                      /\ req[r].nRetr = 1

C6_Witness ==
    \E r \in Reqs :
        /\ CvWarned /\ Ready
        /\ Done(r) /\ IsChat(r) /\ req[r].body = <<"answer", "">>

\* C7: the documents retrieved for a /chat request are at most 4, exactly
\* min(4, N) distinct chunks of the N-chunk index built at startup, and the
\* context handed to the model is made of exactly those chunks, in order.
C7_TopKChunks ==
    /\ vectorstore # None => Get(vectorstore) = chunks
    /\ hpc \in {"prompt", "llm_wait"} =>
          /\ Len(docs) <= 4
          /\ Len(docs) = Min(4, Len(chunks))
          /\ \A i \in DOMAIN docs : \E j \in DOMAIN chunks : docs[i] = chunks[j]
          /\ \A i, j \in DOMAIN docs : i # j => docs[i] # docs[j]
    /\ hpc = "llm_wait" =>
          split(prompt.context) = [i \in DOMAIN docs |-> docs[i].page_content]

C7_Witness ==
    /\ hpc = "llm_wait"
    /\ Len(chunks) = 5
    /\ Len(docs) = 4
    /\ Len(split(prompt.context)) = 4

\* C8: once startup is over, no step of any request changes llm, retriever
\* or vectorstore: Ready stays Ready and NotReady stays NotReady.
C8_GlobalsFrozenAfterStartup ==
    [][spc = "serving" => UNCHANGED <<llm, retriever, vectorstore>>]_vars

C8_Witness ==
    \E r, q \in Reqs :
        /\ Ready
        /\ Done(r) /\ req[r].raised = "llm"
        /\ Done(q) /\ req[q].status = 400

\* C9: a request makes at most one retriever call and at most one remote
\* model call; the model is called only after a retrieval that did not raise;
\* once a call has raised the request is over, with that failure as its
\* response and no further call.
C9_NoRetries ==
    \A r \in Reqs :
        /\ req[r].nRetr <= 1
        /\ req[r].nLlm <= 1
        /\ req[r].nLlm = 1 => req[r].nRetr = 1 /\ req[r].raised # "retriever"
        /\ req[r].raised = "retriever" => req[r].nRetr = 1 /\ req[r].nLlm = 0
        /\ req[r].raised = "llm" => req[r].nRetr = 1 /\ req[r].nLlm = 1
        /\ req[r].raised # "-" =>
              /\ Done(r)
              /\ req[r].body = <<"Sorry, I encountered an error", req[r].raised>>

C9_Witness ==
    \E r, q \in Reqs :
        /\ Done(r) /\ req[r].raised = "retriever" /\ req[r].nLlm = 0
        /\ Done(q) /\ req[q].raised = "llm" /\ req[q].nLlm = 1

\* C10: while the remote model call of one POST /chat is outstanding, any
\* other request the server has received can be handled.
C10_RemoteCallDoesNotBlockOthers ==
    hpc = "llm_wait" =>
        \A q \in Reqs :
            req[q].st = "queued" => ENABLED (root(q) \/ health(q) \/ chat(q))

====
